---- MODULE Spec2Model ----
(***************************************************************************)
(* SatelliteMapDownloader (src/main.py): the lat/lon <-> tile transform,   *)
(* the zoom selector, the tile fetcher and the download-and-stitch loop of *)
(* downloadArea, with its two output files.                                *)
(*                                                                         *)
(* Representation of the floats.  deg2num only ever uses a longitude as    *)
(* the fraction (lonDeg+180)/360 and a latitude as the fraction            *)
(* (1 - asinh(tan(latRad))/pi)/2, both multiplied by n = 2^zoom.  The      *)
(* model keeps coordinates in fixed point with WorldScale steps per world: *)
(*   a longitude lonDeg is the integer  lonDeg/360 * WorldScale,           *)
(*   a latitude  latDeg is the integer  asinh(tan(latRad))/pi * Half,      *)
(* so that 0 is Greenwich / the equator, east and north are positive, and  *)
(* both maps are strictly increasing: comparisons, max and min of degrees  *)
(* are comparisons, max and min of these integers.  Every coordinate of    *)
(* the model is a point of that grid, on which the arithmetic of deg2num   *)
(* and num2deg is exact for zoom <= 24 (float rounding is not modelled).   *)
(***************************************************************************)
EXTENDS Integers, Sequences, FiniteSets, TLC

VARIABLES
  pc,          \* position in downloadArea: idle, resolve, loop, save, meta, done; probe
  status,      \* running, raised (an exception left downloadArea), interrupted
  entry,       \* which public method was called
  corners,     \* downloadFromCorners' argument, <<>> for downloadArea
  bounds,      \* the requested bounds: [north, south, east, west]
  zoomArg,     \* the zoom argument: None or <<z>>
  faults,      \* the tile server in this run: fetch number k fails iff k % FaultPeriod is in faults
  zoom,        \* the zoom in use
  rng,         \* [minX, minY, maxX, maxY]
  tilesX, tilesY, totalTiles,
  canvas,      \* finalImage: [width, height, pastes]
  x, y,        \* the loop variables
  downloaded,  \* the counter of line 125
  fetchLog,    \* the HTTP GETs issued, in order: [x, y, zoom, ok]
  files,       \* the files written by this run, in order
  mapInfo,     \* the metadata record, <<>> until built
  maxTiles,    \* the budget last given to calculateZoomLvl
  selected,    \* what calculateZoomLvl last returned, None before
  prevTotal    \* the tile count at the previous zoom (range probe)

vars == <<pc, status, entry, corners, bounds, zoomArg, faults, zoom, rng, tilesX,
          tilesY, totalTiles, canvas, x, y, downloaded, fetchLog, files, mapInfo,
          maxTiles, selected, prevTotal>>

(***************************************************************************)
(* Program constants                                                       *)
(***************************************************************************)
TileSize == 256
ZoomFirst == 10
ZoomLast == 17
FallbackZoom == 15
DefaultMaxTiles == 20

WorldScale == 2^24
Half == WorldScale \div 2

None == <<>>

\* exampleBounds of main(), on the grid
ExampleNorth == 2085010
ExampleSouth == 2082918
ExampleEast == -3446045
ExampleWest == -3447411
ExampleZoom == 17

exampleBounds ==
  [north |-> ExampleNorth, south |-> ExampleSouth, east |-> ExampleEast, west |-> ExampleWest]

(***************************************************************************)
(* Bounds of the model                                                     *)
(***************************************************************************)
FaultPeriod == 3
MaxZoom == 22

(***************************************************************************)
(* Coordinate transform                                                    *)
(***************************************************************************)
\* Python's int() of the quotient a/b, b > 0: truncation toward zero
Trunc(a, b) == IF a >= 0 THEN a \div b ELSE -((-a) \div b)

\* one tile's side on the grid: WorldScale / n, n = 2.0 ** zoom
CellSize(z) == WorldScale \div (2^z)

deg2num_swapped(latDeg, lonDeg, z) ==
  <<Trunc(Half - latDeg, CellSize(z)), Trunc(lonDeg + Half, CellSize(z))>>

\* x = int((lonDeg+180)/360*n), y = int((1 - asinh(tan(latRad))/pi)/2*n)
deg2num(latDeg, lonDeg, z) ==
  <<Trunc(lonDeg + Half, CellSize(z)), Trunc(Half - latDeg, CellSize(z))>>

\* lonDeg = x/n*360 - 180, latDeg = degrees(atan(sinh(pi*(1 - 2*y/n)))); returns <<lat, lon>>
num2deg(tx, ty, z) ==
  <<Half - ty * CellSize(z), tx * CellSize(z) - Half>>

TileRange_mixed(b, z) ==
  LET lo == deg2num(b.south, b.west, z)
      hi == deg2num(b.north, b.east, z)
  IN  [minX |-> lo[1], minY |-> lo[2], maxX |-> hi[1], maxY |-> hi[2]]

\* minX, minY from (north, west); maxX, maxY from (south, east)
TileRange(b, z) ==
  LET lo == deg2num(b.north, b.west, z)
      hi == deg2num(b.south, b.east, z)
  IN  [minX |-> lo[1], minY |-> lo[2], maxX |-> hi[1], maxY |-> hi[2]]

TilesX(r) == r.maxX - r.minX + 1
TilesY(r) == r.maxY - r.minY + 1
TotalTiles(r) == TilesX(r) * TilesY(r)

(***************************************************************************)
(* Zoom selector                                                           *)
(***************************************************************************)
RECURSIVE ZoomSearch_flipped(_, _, _)
ZoomSearch_flipped(b, budget, z) ==
  IF z > ZoomLast THEN FallbackZoom
  ELSE IF TotalTiles(TileRange(b, z)) >= budget THEN z
  ELSE ZoomSearch_flipped(b, budget, z + 1)

RECURSIVE ZoomSearch(_, _, _)
ZoomSearch(b, budget, z) ==
  IF z > ZoomLast THEN FallbackZoom
  ELSE IF TotalTiles(TileRange(b, z)) <= budget THEN z
  ELSE ZoomSearch(b, budget, z + 1)

\* for zoom in range(10, 18): ... if totalTiles <= maxTiles: return zoom; return 15
calculateZoomLvl(b, budget) == ZoomSearch(b, budget, ZoomFirst)

\* lines 104-105: if zoom is None: zoom = self.calculateZoomLvl(bounds)
ResolveZoom(b, za) == IF za = None THEN calculateZoomLvl(b, DefaultMaxTiles) ELSE za[1]

(***************************************************************************)
(* Tile fetcher                                                            *)
(***************************************************************************)
\* what one GET can end as: the three failures are the exceptions of
\* requests.get, raise_for_status and Image.open
Outcomes == {"ok", "network_error", "bad_status", "undecodable"}

Placeholder == [kind |-> "placeholder", w |-> TileSize, h |-> TileSize]

TileImage(tx, ty, z) == [kind |-> "tile", x |-> tx, y |-> ty, zoom |-> z, w |-> TileSize, h |-> TileSize]

downloadTile_narrow(tx, ty, z, outcome) ==
  IF outcome = "ok" THEN [raised |-> FALSE, image |-> TileImage(tx, ty, z)]
  ELSE IF outcome = "network_error" THEN [raised |-> FALSE, image |-> Placeholder]
  ELSE [raised |-> TRUE, image |-> Placeholder]

\* try: get, raise_for_status, Image.open; except Exception: the placeholder
downloadTile(tx, ty, z, outcome) ==
  IF outcome = "ok" THEN [raised |-> FALSE, image |-> TileImage(tx, ty, z)]
  ELSE [raised |-> FALSE, image |-> Placeholder]

\* the outcomes the server of this run allows for fetch number k
ServerOutcomes(k) ==
  IF (k % FaultPeriod) \in faults THEN Outcomes \ {"ok"} ELSE {"ok"}

(***************************************************************************)
(* Canvas                                                                  *)
(***************************************************************************)
NewImage(w, h) == [width |-> w, height |-> h, pastes |-> <<>>]

Paste(img, tile, px, py) ==
  [img EXCEPT !.pastes = Append(@, [posX |-> px, posY |-> py, image |-> tile])]

PastePos_same(tx, ty, r) == <<(tx - r.minX) * TileSize, (tx - r.minX) * TileSize>>

\* posX = (x - minX) * 256, posY = (y - minY) * 256
PastePos(tx, ty, r) == <<(tx - r.minX) * TileSize, (ty - r.minY) * TileSize>>

(***************************************************************************)
(* The loop of downloadArea                                                *)
(***************************************************************************)
LoopEmpty(r) == r.minX > r.maxX \/ r.minY > r.maxY

NextIter_short(tx, ty, r) ==
  IF ty < r.maxY - 1 THEN [x |-> tx, y |-> ty + 1, more |-> TRUE]
  ELSE IF tx < r.maxX THEN [x |-> tx + 1, y |-> r.minY, more |-> TRUE]
  ELSE [x |-> tx, y |-> ty, more |-> FALSE]

NextIter_column(tx, ty, r) ==
  IF ty < r.maxY THEN [x |-> tx, y |-> ty + 1, more |-> TRUE]
  ELSE [x |-> tx, y |-> ty, more |-> FALSE]

\* for x in range(minX, maxX+1): for y in range(minY, maxY+1)
NextIter(tx, ty, r) ==
  IF ty < r.maxY THEN [x |-> tx, y |-> ty + 1, more |-> TRUE]
  ELSE IF tx < r.maxX THEN [x |-> tx + 1, y |-> r.minY, more |-> TRUE]
  ELSE [x |-> tx, y |-> ty, more |-> FALSE]

(***************************************************************************)
(* downloadFromCorners' reduction                                          *)
(***************************************************************************)
SeqMax(s) == CHOOSE v \in {s[i] : i \in DOMAIN s} : \A i \in DOMAIN s : s[i] <= v
SeqMin(s) == CHOOSE v \in {s[i] : i \in DOMAIN s} : \A i \in DOMAIN s : v <= s[i]

BoundsOfCorners_first(cs) ==
  LET lats == [i \in DOMAIN cs |-> cs[i][1]]
      lons == [i \in DOMAIN cs |-> cs[i][2]]
  IN  [north |-> lats[1], south |-> SeqMin(lats), east |-> SeqMax(lons), west |-> SeqMin(lons)]

BoundsOfCorners(cs) ==
  LET lats == [i \in DOMAIN cs |-> cs[i][1]]
      lons == [i \in DOMAIN cs |-> cs[i][2]]
  IN  [north |-> SeqMax(lats), south |-> SeqMin(lats), east |-> SeqMax(lons), west |-> SeqMin(lons)]

\* the four corners of a box, as main() lists them: NW, NE, SE, SW
CornersOf(b) ==
  << <<b.north, b.west>>, <<b.north, b.east>>, <<b.south, b.east>>, <<b.south, b.west>> >>

AllOrders == {p \in [1..4 -> 1..4] : \A i, j \in 1..4 : p[i] = p[j] => i = j}
ListedOrder == {[i \in 1..4 |-> i]}

(***************************************************************************)
(* Inputs                                                                  *)
(***************************************************************************)
Box(n, s, e, w) == [north |-> n, south |-> s, east |-> e, west |-> w]

\* around the north-west corner of exampleBounds, a few zoom-17 tiles apart
NearLats == {ExampleNorth, ExampleNorth - 200, ExampleNorth - 420}
NearLons == {ExampleWest, ExampleWest + 120, ExampleWest + 400}
\* north of the Web Mercator square (|lat| > 85.0511): about 86 degrees
PolarLats == {Half + 568963, Half + 568900}
\* on both sides of the square's northern edge (85.0511 degrees is Half)
EdgeLats == {Half + 100, Half - 300}

BoxesOver(lats, lons) ==
  {Box(n, s, e, w) : n \in lats, s \in lats, e \in lons, w \in lons}

Normalized(b) == b.north > b.south /\ b.east > b.west

SmallBoxes ==
  {b \in BoxesOver(NearLats, NearLons) \cup BoxesOver(PolarLats, NearLons)
           \cup BoxesOver(EdgeLats, NearLons) : Normalized(b)}

\* 21 tiles wide and 1 high at zoom 10: no zoom of 10..17 fits 20 tiles
WideBox == Box(ExampleNorth, ExampleNorth - 60, ExampleWest, ExampleWest - 20 * CellSize(ZoomFirst))
\* 1 tile at zoom 10, 4 x 6 tiles at zoom 15
TallBox == Box(ExampleNorth, ExampleSouth - 600, ExampleEast, ExampleWest)
BudgetBoxes == {WideBox, TallBox, Box(ExampleNorth, ExampleNorth - 200, ExampleWest + 120, ExampleWest)}

ProbeBoxes == SmallBoxes \cup {WideBox, TallBox, exampleBounds}
Budgets == {1, 4, DefaultMaxTiles}

ZoomArgs == {None, <<16>>, <<ExampleZoom>>}

(***************************************************************************)
(* Initial state                                                           *)
(***************************************************************************)
NoRange == [minX |-> 0, minY |-> 0, maxX |-> 0, maxY |-> 0]

Init ==
  /\ pc = "idle"
  /\ status = "running"
  /\ entry = "none"
  /\ corners = <<>>
  /\ bounds = Box(0, 0, 0, 0)
  /\ zoomArg = None
  /\ faults = {}
  /\ zoom = 0
  /\ rng = NoRange
  /\ tilesX = 0
  /\ tilesY = 0
  /\ totalTiles = 0
  /\ canvas = NewImage(0, 0)
  /\ x = 0
  /\ y = 0
  /\ downloaded = 0
  /\ fetchLog = <<>>
  /\ files = <<>>
  /\ mapInfo = <<>>
  /\ maxTiles = 0
  /\ selected = None
  /\ prevTotal = 0

(***************************************************************************)
(* Actions                                                                 *)
(***************************************************************************)
\* a caller invokes downloadArea(bounds, zoom)
CallDownloadArea(boxes, zooms) ==
  /\ pc = "idle"
  /\ \E b \in boxes, z \in zooms, f \in SUBSET (0 .. FaultPeriod - 1) :
       /\ bounds' = b
       /\ zoomArg' = z
       /\ faults' = f
  /\ entry' = "downloadArea"
  /\ pc' = "resolve"
  /\ UNCHANGED <<status, corners, zoom, rng, tilesX, tilesY, totalTiles, canvas, x, y,
                 downloaded, fetchLog, files, mapInfo, maxTiles, selected, prevTotal>>

\* a caller invokes downloadFromCorners(corners, zoom): lines 199-209
CallDownloadFromCorners(boxes, zooms, orders) ==
  /\ pc = "idle"
  /\ \E b \in boxes, z \in zooms, f \in SUBSET (0 .. FaultPeriod - 1), p \in orders :
       LET cs == [i \in 1..4 |-> CornersOf(b)[p[i]]] IN
       /\ corners' = cs
       /\ bounds' = BoundsOfCorners(cs)
       /\ zoomArg' = z
       /\ faults' = f
  /\ entry' = "downloadFromCorners"
  /\ pc' = "resolve"
  /\ UNCHANGED <<status, zoom, rng, tilesX, tilesY, totalTiles, canvas, x, y,
                 downloaded, fetchLog, files, mapInfo, maxTiles, selected, prevTotal>>

\* lines 103-125: the zoom, the tile range, the canvas, downloaded = 0
BeginDownloadArea ==
  /\ pc = "resolve" /\ status = "running"
  /\ LET z == ResolveZoom(bounds, zoomArg)
         r == TileRange(bounds, z)
     IN  /\ zoom' = z
         /\ maxTiles' = IF zoomArg = None THEN DefaultMaxTiles ELSE maxTiles
         /\ selected' = IF zoomArg = None THEN <<z>> ELSE selected
         /\ rng' = r
         /\ tilesX' = TilesX(r)
         /\ tilesY' = TilesY(r)
         /\ totalTiles' = TotalTiles(r)
         /\ canvas' = NewImage(TilesX(r) * TileSize, TilesY(r) * TileSize)
         /\ x' = r.minX
         /\ y' = r.minY
         /\ pc' = IF LoopEmpty(r) THEN "save" ELSE "loop"
  /\ downloaded' = 0
  /\ UNCHANGED <<status, entry, corners, bounds, zoomArg, faults, fetchLog, files, mapInfo,
                 prevTotal>>

\* lines 126-142: one iteration: fetch tile (x, y), paste it, count it
DownloadAndStitch ==
  /\ pc = "loop" /\ status = "running"
  /\ \E outcome \in ServerOutcomes(downloaded) :
       LET got == downloadTile(x, y, zoom, outcome)
           pos == PastePos(x, y, rng)
           nxt == NextIter(x, y, rng)
       IN  /\ fetchLog' = Append(fetchLog, [x |-> x, y |-> y, zoom |-> zoom, ok |-> outcome = "ok"])
           /\ IF got.raised
                THEN /\ status' = "raised"
                     /\ UNCHANGED <<canvas, downloaded, x, y, pc>>
                ELSE /\ canvas' = Paste(canvas, got.image, pos[1], pos[2])
                     /\ downloaded' = downloaded + 1
                     /\ x' = nxt.x
                     /\ y' = nxt.y
                     /\ pc' = IF nxt.more THEN "loop" ELSE "save"
                     /\ UNCHANGED status
  /\ UNCHANGED <<entry, corners, bounds, zoomArg, faults, zoom, rng, tilesX, tilesY, totalTiles,
                 files, mapInfo, maxTiles, selected, prevTotal>>

\* lines 144-146: finalImage.save(imagePath)
SaveImage ==
  /\ pc = "save" /\ status = "running"
  /\ files' = Append(files, "image")
  /\ pc' = "meta"
  /\ UNCHANGED <<status, entry, corners, bounds, zoomArg, faults, zoom, rng, tilesX, tilesY,
                 totalTiles, canvas, x, y, downloaded, fetchLog, mapInfo, maxTiles, selected,
                 prevTotal>>

\* lines 148-175: the achieved bounds and the metadata record
MapInfo(b, z, r) ==
  LET nw == num2deg(r.minX, r.minY, z)
      se == num2deg(r.maxX + 1, r.maxY + 1, z)
  IN  [bounds |-> [north |-> nw[1], south |-> se[1], east |-> se[2], west |-> nw[2],
                   requestedNorth |-> b.north, requestedSouth |-> b.south,
                   requestedEast |-> b.east, requestedWest |-> b.west],
       zoom |-> z,
       imageSize |-> [tilesX |-> TilesX(r), tilesY |-> TilesY(r), minX |-> r.minX,
                      minY |-> r.minY, maxX |-> r.maxX, maxY |-> r.maxY]]

\* lines 148-185: build mapInfo, write the metadata file, return
SaveMetadata ==
  /\ pc = "meta" /\ status = "running"
  /\ mapInfo' = MapInfo(bounds, zoom, rng)
  /\ files' = Append(files, "metadata")
  /\ pc' = "done"
  /\ UNCHANGED <<status, entry, corners, bounds, zoomArg, faults, zoom, rng, tilesX, tilesY,
                 totalTiles, canvas, x, y, downloaded, fetchLog, maxTiles, selected, prevTotal>>

\* the run is stopped from outside (KeyboardInterrupt is no Exception, a kill)
Interrupt ==
  /\ pc \in {"resolve", "loop", "save", "meta"} /\ status = "running"
  /\ status' = "interrupted"
  /\ UNCHANGED <<pc, entry, corners, bounds, zoomArg, faults, zoom, rng, tilesX, tilesY,
                 totalTiles, canvas, x, y, downloaded, fetchLog, files, mapInfo, maxTiles,
                 selected, prevTotal>>

NextOver(boxes, zooms, orders) ==
  \/ CallDownloadArea(boxes, zooms)
  \/ CallDownloadFromCorners(boxes, zooms, orders)
  \/ BeginDownloadArea
  \/ DownloadAndStitch
  \/ SaveImage
  \/ SaveMetadata
  \/ Interrupt

Next == NextOver(SmallBoxes, ZoomArgs, AllOrders)

Spec == Init /\ [][Next]_vars

(***************************************************************************)
(* The range computation and the zoom selector on their own                *)
(***************************************************************************)
\* lines 57-62 at zoom 0 for some box
ProbeRange(boxes) ==
  /\ pc = "idle"
  /\ \E b \in boxes :
       /\ bounds' = b
       /\ rng' = TileRange(b, 0)
       /\ tilesX' = TilesX(TileRange(b, 0))
       /\ tilesY' = TilesY(TileRange(b, 0))
       /\ totalTiles' = TotalTiles(TileRange(b, 0))
  /\ zoom' = 0
  /\ prevTotal' = 0
  /\ entry' = "probe"
  /\ pc' = "probe"
  /\ UNCHANGED <<status, corners, zoomArg, faults, canvas, x, y, downloaded, fetchLog, files,
                 mapInfo, maxTiles, selected>>

\* lines 57-62 at the next zoom, for the same box
ProbeZoomIn ==
  /\ pc = "probe" /\ zoom < MaxZoom
  /\ zoom' = zoom + 1
  /\ prevTotal' = totalTiles
  /\ rng' = TileRange(bounds, zoom + 1)
  /\ tilesX' = TilesX(TileRange(bounds, zoom + 1))
  /\ tilesY' = TilesY(TileRange(bounds, zoom + 1))
  /\ totalTiles' = TotalTiles(TileRange(bounds, zoom + 1))
  /\ UNCHANGED <<pc, status, entry, corners, bounds, zoomArg, faults, canvas, x, y, downloaded,
                 fetchLog, files, mapInfo, maxTiles, selected>>

\* calculateZoomLvl(bounds, maxTiles) for some budget
ProbeSelect ==
  /\ pc = "probe"
  /\ \E m \in Budgets :
       /\ maxTiles' = m
       /\ selected' = <<calculateZoomLvl(bounds, m)>>
  /\ UNCHANGED <<pc, status, entry, corners, bounds, zoomArg, faults, zoom, rng, tilesX, tilesY,
                 totalTiles, canvas, x, y, downloaded, fetchLog, files, mapInfo, prevTotal>>

NextRange ==
  \/ ProbeRange(ProbeBoxes)
  \/ ProbeZoomIn
  \/ ProbeSelect

SpecRange == Init /\ [][NextRange]_vars

\* auto-zoomed runs, over boxes that fit the budget and one that does not
NextBudget == NextOver(BudgetBoxes, {None}, ListedOrder)

SpecBudget == Init /\ [][NextBudget]_vars

\* the two calls of main()
NextMain == NextOver({exampleBounds}, {<<ExampleZoom>>}, ListedOrder)

SpecMain == Init /\ [][NextMain]_vars

(***************************************************************************)
(* Properties                                                              *)
(***************************************************************************)
Started == pc \in {"loop", "save", "meta", "done"}
LoopOver == pc \in {"save", "meta", "done"}

InRange(tx, ty, r) == r.minX <= tx /\ tx <= r.maxX /\ r.minY <= ty /\ ty <= r.maxY
RangeTiles(r) == {<<tx, ty>> \in (r.minX .. r.maxX) \X (r.minY .. r.maxY) : TRUE}
Fetched == {<<fetchLog[k].x, fetchLog[k].y>> : k \in DOMAIN fetchLog}
FailedFetches == {k \in DOMAIN fetchLog : ~fetchLog[k].ok}

\* the zooms of the selector's range whose tile count fits the budget m
FittingZooms(b, m) == {z \in ZoomFirst .. ZoomLast : TotalTiles(TileRange(b, z)) <= m}

\* what the canvas shows at pixel (px, py): the last image pasted over it
Covers(p, px, py) ==
  /\ p.posX <= px /\ px < p.posX + p.image.w
  /\ p.posY <= py /\ py < p.posY + p.image.h
ContentAt(px, py) ==
  LET hits == {i \in DOMAIN canvas.pastes : Covers(canvas.pastes[i], px, py)}
  IN  IF hits = {} THEN [kind |-> "blank"]
      ELSE canvas.pastes[CHOOSE i \in hits : \A j \in hits : j <= i].image
\* the 256x256 region of tile (tx, ty) shows img (its four corner pixels do)
RegionShows(tx, ty, img) ==
  LET px == (tx - rng.minX) * TileSize
      py == (ty - rng.minY) * TileSize
  IN  \A dx, dy \in {0, TileSize - 1} : ContentAt(px + dx, py + dy) = img

Disjoint(p, q) ==
  \/ p.posX + p.image.w <= q.posX \/ q.posX + q.image.w <= p.posX
  \/ p.posY + p.image.h <= q.posY \/ q.posY + q.image.h <= p.posY
Inside(p) ==
  /\ 0 <= p.posX /\ p.posX + p.image.w <= canvas.width
  /\ 0 <= p.posY /\ p.posY + p.image.h <= canvas.height
RECURSIVE PastedArea(_)
PastedArea(k) ==
  IF k = 0 THEN 0
  ELSE canvas.pastes[k].image.w * canvas.pastes[k].image.h + PastedArea(k - 1)

\* C1: whenever some zoom of 10..17 fits the budget, calculateZoomLvl returns the
\* finest (highest) zoom of 10..17 whose tile count is <= maxTiles.
C1_ReturnsFinestFit ==
  (pc = "probe" /\ selected # None /\ FittingZooms(bounds, maxTiles) # {}) =>
    /\ selected[1] \in FittingZooms(bounds, maxTiles)
    /\ \A z \in FittingZooms(bounds, maxTiles) : z <= selected[1]

\* C2: in an auto-zoomed downloadArea, if no zoom of 10..17 fits the budget of 20 the
\* selector returns 15 without an error and the whole range at zoom 15 is fetched
\* although it exceeds the budget; in every other case at most 20 tiles are fetched.
C2_FallbackElseWithinBudget ==
  (Started /\ zoomArg = None) =>
    IF FittingZooms(bounds, DefaultMaxTiles) = {}
      THEN /\ zoom = FallbackZoom
           /\ status # "raised"
           /\ totalTiles > DefaultMaxTiles
           /\ \A k \in DOMAIN fetchLog : fetchLog[k].zoom = FallbackZoom
           /\ LoopOver => (Fetched = RangeTiles(TileRange(bounds, FallbackZoom))
                           /\ Len(fetchLog) > DefaultMaxTiles)
      ELSE /\ Len(fetchLog) <= DefaultMaxTiles
           /\ totalTiles <= DefaultMaxTiles
           /\ zoom \in FittingZooms(bounds, DefaultMaxTiles)

C2_Witness ==
  /\ pc = "done" /\ zoomArg = None /\ entry = "downloadArea"
  /\ FittingZooms(bounds, DefaultMaxTiles) = {}
  /\ zoom = FallbackZoom /\ Len(fetchLog) > DefaultMaxTiles

C4_AchievedContainsRequested ==
  pc = "done" =>
    /\ mapInfo.bounds.north >= bounds.north
    /\ mapInfo.bounds.south <= bounds.south
    /\ mapInfo.bounds.east >= bounds.east
    /\ mapInfo.bounds.west <= bounds.west

\* C5 as stated: exampleBounds at zoom 17 give 6 columns by 5 rows and a canvas of
\* 1536x1280 pixels.
C5_Grid6x5 ==
  (Started /\ bounds = exampleBounds /\ zoom = ExampleZoom) =>
    /\ tilesX = 6 /\ tilesY = 5
    /\ canvas.width = 1536 /\ canvas.height = 1280

\* C5 as amended: exampleBounds at zoom 17 give 11 columns by 18 rows (x 38603..38613,
\* y 49246..49263) and a canvas of 2816x4608 pixels.
C5_Grid11x18 ==
  (Started /\ bounds = exampleBounds /\ zoom = ExampleZoom) =>
    /\ rng = [minX |-> 38603, minY |-> 49246, maxX |-> 38613, maxY |-> 49263]
    /\ tilesX = 11 /\ tilesY = 18
    /\ canvas.width = 2816 /\ canvas.height = 4608

C5_Witness ==
  /\ pc = "done" /\ entry = "downloadArea"
  /\ bounds = exampleBounds /\ zoom = ExampleZoom
  /\ Len(canvas.pastes) = tilesX * tilesY

\* C6: for a box with north > south and east > west, the tile count of the range
\* computation at zoom z+1 is never smaller than the one at zoom z.
C6_TileCountMonotone ==
  (pc = "probe" /\ zoom > 0 /\ Normalized(bounds)) => totalTiles >= prevTotal

C6_Witness ==
  /\ pc = "probe" /\ Normalized(bounds)
  /\ zoom > ZoomLast /\ prevTotal > 1 /\ totalTiles > prevTotal

\* C7: downloadFromCorners given the four corners of a box in any order, with a zoom
\* or without, runs with the requested bounds, the zoom and the tile range that
\* downloadArea has for that box and zoom.
C7_CornersAsArea ==
  (Started /\ entry = "downloadFromCorners") =>
    \A b \in SmallBoxes :
      {corners[i] : i \in DOMAIN corners} = {CornersOf(b)[i] : i \in 1..4} =>
        /\ bounds = b
        /\ zoom = ResolveZoom(b, zoomArg)
        /\ rng = TileRange(b, ResolveZoom(b, zoomArg))
        /\ pc = "done" => mapInfo = MapInfo(b, ResolveZoom(b, zoomArg),
                                            TileRange(b, ResolveZoom(b, zoomArg)))

C7_Witness ==
  /\ pc = "done" /\ entry = "downloadFromCorners" /\ zoomArg = None
  /\ corners[1] = <<bounds.south, bounds.east>>
  /\ corners[4] = <<bounds.north, bounds.west>>

\* C8: in one run every tile of the range is fetched exactly once with one GET (none
\* twice, also after a failure), no tile outside the range is fetched, and after the
\* loop the number of fetches is tilesX*tilesY as the metadata records them.
C8_EachTileFetchedOnce ==
  /\ \A i, j \in DOMAIN fetchLog :
       (fetchLog[i].x = fetchLog[j].x /\ fetchLog[i].y = fetchLog[j].y) => i = j
  /\ \A k \in DOMAIN fetchLog :
       InRange(fetchLog[k].x, fetchLog[k].y, rng) /\ fetchLog[k].zoom = zoom
  /\ LoopOver => (Fetched = RangeTiles(rng) /\ Len(fetchLog) = tilesX * tilesY)
  /\ pc = "done" => Len(fetchLog) = mapInfo.imageSize.tilesX * mapInfo.imageSize.tilesY

C8_Witness ==
  /\ pc = "done" /\ tilesX > 1 /\ tilesY > 1
  /\ Len(fetchLog) = tilesX * tilesY
  /\ \E k \in FailedFetches : k < Len(fetchLog)

\* C9: the canvas is (maxX-minX+1)*256 by (maxY-minY+1)*256; the k-th fetched tile
\* (x, y) is pasted at ((x-minX)*256, (y-minY)*256); the pasted regions are pairwise
\* disjoint, inside the canvas and, after the loop, cover it; so no paste overwrites
\* another and each region shows its own tile, whatever the order of the pastes.
C9_CanvasTiling ==
  Started =>
    /\ canvas.width = (rng.maxX - rng.minX + 1) * 256
    /\ canvas.height = (rng.maxY - rng.minY + 1) * 256
    /\ Len(canvas.pastes) = Len(fetchLog)
    /\ \A k \in DOMAIN canvas.pastes :
         /\ canvas.pastes[k].posX = (fetchLog[k].x - rng.minX) * 256
         /\ canvas.pastes[k].posY = (fetchLog[k].y - rng.minY) * 256
         /\ Inside(canvas.pastes[k])
    /\ \A i, j \in DOMAIN canvas.pastes :
         i # j => Disjoint(canvas.pastes[i], canvas.pastes[j])
    /\ \A k \in DOMAIN canvas.pastes :
         RegionShows(fetchLog[k].x, fetchLog[k].y, canvas.pastes[k].image)
    /\ LoopOver => PastedArea(Len(canvas.pastes)) = canvas.width * canvas.height

C9_Witness ==
  /\ pc = "done" /\ tilesX > 2 /\ tilesY > 2
  /\ Len(canvas.pastes) = tilesX * tilesY
  /\ PastedArea(Len(canvas.pastes)) = canvas.width * canvas.height

\* C10: no file is written before every tile of the range is fetched and pasted, and
\* the metadata file only after the image file: a run stopped during the tile loop
\* leaves no output file, and the metadata file never exists without the image file.
C10_NoPartialOutput ==
  /\ files # <<>> => (Fetched = RangeTiles(rng) /\ Len(canvas.pastes) = totalTiles)
  /\ pc \in {"idle", "resolve", "loop"} => files = <<>>
  /\ \A k \in DOMAIN files : files[k] = "metadata" => (k > 1 /\ files[1] = "image")

C10_Witness ==
  /\ status = "interrupted" /\ pc = "loop"
  /\ downloaded > 0 /\ files = <<>>

====
